---- MODULE Spec2Model ----
(***************************************************************************)
(* A model of ket-vision (src/vision.py): a Telegram bot whose handlers    *)
(* are coroutines of one asyncio event loop.  A handler runs atomically    *)
(* from one await to the next; at an await (download, reply_text,          *)
(* edit_text, the worker-pool future) any other handler may run.  The      *)
(* blocking model call runs on a worker of the ThreadPoolExecutor.         *)
(***************************************************************************)
EXTENDS Naturals, Sequences, FiniteSets

\* ------------------------------------------------------------- bounds
\* Number of inbound chat events (handler invocations) of one behaviour.
MaxRuns == 2
\* Longest text and largest max_length given to split_message on its own.
MaxLen == 5
MaxM == 3

Runs == 1..MaxRuns

\* ------------------------------------------------- program constants
\* split_message's default max_length.
DefaultMaxLength == 4096

\* os.cpu_count() of the host, here a host with one processor, and the size
\* ThreadPoolExecutor() gives its pool when built without max_workers
\* (line 44): min(32, os.cpu_count() + 4).
cpu_count == 1

max_workers == IF cpu_count + 4 < 32 THEN cpu_count + 4 ELSE 32

\* The number of handler workers of the client's dispatcher: Client(...)
\* (lines 20-27) is built without workers=, which leaves the client's
\* default, min(32, os.cpu_count() + 4).  Each handler worker takes one
\* inbound update at a time and awaits its handler to the end.
workers == IF cpu_count + 4 < 32 THEN cpu_count + 4 ELSE 32

\* ---------------------------------------------------------- strings
\* A token of a command is a sequence of characters, so that str.lower()
\* is a computation and not the identity.
LowerChar(c) ==
    CASE c = "O" -> "o"
      [] c = "N" -> "n"
      [] c = "F" -> "f"
      [] c = "X" -> "x"
      [] OTHER -> c

Lower(token) == [i \in DOMAIN token |-> LowerChar(token[i])]

on == <<"o", "n">>
off == <<"o", "f", "f">>

\* ------------------------------------------------------- file system
\* Paths are pairs; process_image always uses downloads/image.jpg, while
\* Message.download() without a file name generates a fresh name per call.
FixedPath == <<"downloads/image.jpg", 0>>
GeneratedPath(r) == <<"downloads/photo", r>>
Paths == {FixedPath} \cup {GeneratedPath(r) : r \in Runs}

\* Values of a Python variable that holds no path.
NoneValue == <<"None", 0>>
Unbound == <<"unbound", 0>>

\* Content of a path: Absent, or the run whose download wrote the bytes.
Absent == 0

\* os.path.exists(path) for a path string.
exists(files, path) == files[path] # Absent

\* ------------------------------------------------------------ events
\* An inbound message: whether it carries a photo, its command (the list
\* Message.command: name, then arguments; empty when it is no command),
\* what it replies to, and whether it has a sender (Message.from_user is
\* None for a channel post or an anonymous administrator).  Messages
\* without a sender are drawn for the handlers that read from_user.
Tokens == {on, off, <<"O", "N">>, <<"x">>}

AutovisionCommands ==
    {<<"autovision">>} \cup {<<"autovision", t>> : t \in Tokens}
       \cup {<<"autovision", on, <<"x">> >>}

Events ==
    [photo : {TRUE}, command : {<< >>, <<"vision">>}, reply_to : {"none"},
     from_user : {TRUE}]
      \cup [photo : {FALSE}, command : {<<"vision">>},
            reply_to : {"none", "photo", "text"}, from_user : {TRUE}]
      \cup [photo : {FALSE}, command : AutovisionCommands, reply_to : {"none"},
            from_user : {TRUE}]
      \cup [photo : {FALSE}, command : {<<"start">>, <<"help">>, <<"ping">>},
            reply_to : {"none"}, from_user : {TRUE}]
      \cup [photo : {FALSE},
            command : {<<"start">>, <<"help">>, <<"autovision", on>>,
                       <<"autovision", off>>},
            reply_to : {"none"}, from_user : {FALSE}]

NoEvent ==
    [photo |-> FALSE, command |-> << >>, reply_to |-> "none",
     from_user |-> TRUE]

\* The dispatcher runs the first registered handler whose filter matches:
\* filters.photo is registered first, then the command filters.
Dispatch(ev) ==
    IF ev.photo THEN "process_image"
    ELSE IF ev.command = << >> THEN "none"
    ELSE IF ev.command[1] \in {"start", "help"} THEN "start_command"
    ELSE IF ev.command[1] = "autovision" THEN "autovision_command"
    ELSE IF ev.command[1] = "ping" THEN "ping_command"
    ELSE IF ev.command[1] = "vision" THEN "vision_command"
    ELSE "none"

\* --------------------------------------------------------- split_message
RECURSIVE SplitFrom(_, _, _)
\* The slices text[i : i + max_length] for i = start, start + max_length, ...
\* (start is the 0-based index of the comprehension's range).
SplitFrom(text, max_length, start) ==
    IF start >= Len(text) THEN << >>
    ELSE LET stop == IF start + max_length > Len(text) THEN Len(text)
                     ELSE start + max_length
         IN  <<SubSeq(text, start + 1, stop)>>
               \o SplitFrom(text, max_length, start + max_length)

\* split_message with its range started at 1 instead of 0.
split_message_from_one(text, max_length) == SplitFrom(text, max_length, 1)

split_message(text, max_length) == SplitFrom(text, max_length, 0)

\* ------------------------------------------------------------- state
VARIABLES
    autoVision,   \* the module-level switch (line 41)
    fs,           \* the download directory: path -> content
    run,          \* one record per handler invocation
    call          \* a call of split_message on its own: its arguments,
                  \*   whether it returned, and its value

vars == <<autoVision, fs, run, call>>

\* Threads: the one that runs the event loop and every handler (line 204),
\* and the workers of the executor (line 44).
LoopThread == "MainThread"
PoolThread == "ThreadPoolExecutor"

\* A handler invocation that has not been dispatched yet.
IdleRun ==
    [handler |-> "none", ev |-> NoEvent, pc |-> "idle",
     gate |-> FALSE,          \* the value of autoVision read at line 92
     file_path |-> Unbound,   \* file_path (line 98) or image_path (line 179)
     downloads |-> 0,         \* calls of Message.download
     opens |-> 0,             \* calls of Image.open (line 68)
     opened |-> Absent,       \* the content Image.open read
     failure |-> "none",      \* the stage that raised: download, open or
                              \*   inference
     task |-> "none",         \* the closure given to the executor (line 82)
     thread |-> "none",       \* the thread that runs the closure's model calls
     result |-> << >>,        \* what the model call returned
     pending |-> << >>,       \* chunks of the for loop not sent yet
     replies |-> << >>,       \* reply_text / edit_text calls, in order
     removed |-> 0,           \* calls of os.remove
     cleanup |-> FALSE,       \* the finally block ran to its end
     raised |-> FALSE]        \* an exception left the handler

\* What the model may answer: the empty string or a short description.
Answers == {<< >>, <<"a">>}

\* ------------------------------------------------- control-flow helpers
Return(rec) == [rec EXCEPT !.pc = "done"]

\* An exception propagates out of the handler.
Raise(rec) == [rec EXCEPT !.pc = "done", !.raised = TRUE]

\* await message.reply_text(...): the call is issued and the handler waits.
BeginReply(rec, pc, kind, body) ==
    [rec EXCEPT !.pc = pc,
                !.replies = Append(@, [kind |-> kind, body |-> body,
                                       status |-> "pending"])]

\* The awaited call completes: the message was sent, or the call raised.
EndReply(rec, ok) ==
    [rec EXCEPT !.replies[Len(rec.replies)].status =
                    IF ok THEN "sent" ELSE "failed"]

\* except FileNotFoundError / except Exception (lines 110-113, 183-186).
ExceptClause(rec, exc) ==
    BeginReply(rec, "reply_error",
               IF exc = "FileNotFoundError" THEN "Error: "
               ELSE "An unexpected error occurred: ", << >>)

\* finally (lines 114-118, 187-191), entered with or without an exception
\* in flight.  os.path.exists raises for None and the name is unbound when
\* the download raised; both leave the handler with an exception.
FinallyBlock(rec, files, exc) ==
    IF rec.file_path \in {Unbound, NoneValue}
    THEN [rec |-> Raise(rec), files |-> files]
    ELSE LET after == IF exists(files, rec.file_path)
                      THEN [rec |-> [rec EXCEPT !.removed = @ + 1],
                            files |-> [files EXCEPT ![rec.file_path] = Absent]]
                      ELSE [rec |-> rec, files |-> files]
             ended == [after EXCEPT !.rec.cleanup = TRUE]
         IN  [ended EXCEPT !.rec = IF exc THEN Raise(@) ELSE Return(@)]

\* vision() calling the closure itself (result = process_image()) instead
\* of handing it to the executor: the model calls start on the event loop.
CallVisionInline(rec, files, decodable) ==
    LET called == [rec EXCEPT !.opens = @ + 1]
        failed == [called EXCEPT !.failure = "open"]
    IN  IF rec.file_path = NoneValue THEN ExceptClause(failed, "AttributeError")
        ELSE IF ~exists(files, rec.file_path)
        THEN ExceptClause(failed, "FileNotFoundError")
        ELSE IF ~decodable
        THEN ExceptClause(failed, "UnidentifiedImageError")
        ELSE [called EXCEPT !.pc = "infer", !.opened = files[rec.file_path],
                            !.task = "running", !.thread = LoopThread]

\* vision(image_path) up to its await (lines 65-82), inside the caller's
\* try: Image.open raises FileNotFoundError for a missing file and another
\* exception for None or for bytes that are no image; otherwise the closure
\* is handed to the executor.
CallVision(rec, files, decodable) ==
    LET called == [rec EXCEPT !.opens = @ + 1]
        failed == [called EXCEPT !.failure = "open"]
    IN  IF rec.file_path = NoneValue THEN ExceptClause(failed, "AttributeError")
        ELSE IF ~exists(files, rec.file_path)
        THEN ExceptClause(failed, "FileNotFoundError")
        ELSE IF ~decodable
        THEN ExceptClause(failed, "UnidentifiedImageError")
        ELSE [called EXCEPT !.pc = "infer", !.opened = files[rec.file_path],
                            !.task = "queued"]

\* The loop replaced by one reply of the first chunk (reply_text(result[:n])).
SendFirstChunk(rec, files, msgs) ==
    IF msgs = << >> THEN FinallyBlock(rec, files, FALSE)
    ELSE [rec |-> BeginReply([rec EXCEPT !.pending = << >>],
                             "reply_chunk", "chunk", Head(msgs)),
          files |-> files]

\* The loop replaced by sends that are not awaited one by one
\* (asyncio.gather over the chunks).
SendTogether(rec, files, msgs) ==
    IF msgs = << >> THEN FinallyBlock(rec, files, FALSE)
    ELSE [rec |-> [rec EXCEPT
                     !.pc = "reply_chunk",
                     !.pending = << >>,
                     !.replies = @ \o [i \in DOMAIN msgs |->
                                         [kind |-> "chunk", body |-> msgs[i],
                                          status |-> "pending"]]],
          files |-> files]

\* for msg in split_message(result): await message.reply_text(msg)
SendChunks(rec, files, msgs) ==
    IF msgs = << >> THEN FinallyBlock(rec, files, FALSE)
    ELSE [rec |-> BeginReply([rec EXCEPT !.pending = Tail(msgs)],
                             "reply_chunk", "chunk", Head(msgs)),
          files |-> files]

\* ------------------------------------------------------------ actions
Pipeline == <<autoVision, fs, run>>
SplitVars == <<call>>

\* The handlers in flight: dispatched and not yet ended.
HandlersInFlight == {q \in DOMAIN run : run[q].pc \notin {"idle", "done"}}

\* The dispatcher starts the handler of the next inbound event: one of its
\* handler workers is free, that is, fewer than workers handlers are in
\* flight.  Handler invocations are numbered in the order their events
\* arrive.
Fresh(r) ==
    /\ run[r].pc = "idle"
    /\ \A q \in DOMAIN run : q < r => run[q].pc # "idle"
    /\ Cardinality(HandlersInFlight) < workers

Entered(r, ev) ==
    [IdleRun EXCEPT !.handler = Dispatch(ev), !.ev = ev, !.gate = autoVision]

Set(r, rec, files) ==
    /\ run' = [run EXCEPT ![r] = rec]
    /\ fs' = files

\* The test of line 92 left out, and the test inverted.
GateOpenAlways(flag) == TRUE
GateOpenInverted(flag) == ~flag

\* if autoVision: (line 92)
GateOpen(flag) == flag

\* Where a handler's download writes: process_image names
\* downloads/image.jpg (lines 93-95, 98); vision_command gives no name
\* (line 179) and the client generates one.
download_path(handler, r) ==
    IF handler = "process_image" THEN FixedPath ELSE GeneratedPath(r)

\* The test of line 176 left out: any replied-to message counts.
HasReply(reply_to) == reply_to # "none"

\* message.reply_to_message and message.reply_to_message.photo (lines 172,
\* 176).
HasPhoto(reply_to) == reply_to = "photo"

\* process_image, lines 90-98: up to the await of the download.
process_image(r, ev) ==
    /\ Fresh(r)
    /\ Dispatch(ev) = "process_image"
    /\ IF GateOpen(autoVision)
       THEN Set(r, [Entered(r, ev) EXCEPT !.pc = "pi_download",
                                          !.downloads = @ + 1], fs)
       ELSE Set(r, Return(Entered(r, ev)), fs)
    /\ UNCHANGED <<autoVision, SplitVars>>

\* process_image, lines 98-105: the download returns a path, returns None
\* or raises (outside any try).
process_image_downloaded(r, outcome) ==
    /\ run[r].pc = "pi_download"
    /\ CASE outcome = "raise" ->
              Set(r, Raise([run[r] EXCEPT !.failure = "download"]), fs)
         [] outcome = "none" ->
              Set(r, BeginReply([run[r] EXCEPT !.file_path = NoneValue],
                                "last_reply", "Failed to download the image.",
                                << >>), fs)
         [] outcome = "path" ->
              LET path == download_path(run[r].handler, r)
              IN  Set(r, BeginReply([run[r] EXCEPT !.file_path = path],
                                    "pi_reply_processing",
                                    "Processing image...", << >>),
                      [fs EXCEPT ![path] = r])
    /\ UNCHANGED <<autoVision, SplitVars>>

\* A handler that reads the switch again when it resumes and gives up when
\* the switch is off.
process_image_rereads_switch(r, ok, decodable) ==
    /\ run[r].pc = "pi_reply_processing"
    /\ IF ~ok THEN Set(r, Raise(EndReply(run[r], FALSE)), fs)
       ELSE IF ~autoVision THEN Set(r, Return(EndReply(run[r], TRUE)), fs)
       ELSE Set(r, CallVision(EndReply(run[r], TRUE), fs, decodable), fs)
    /\ UNCHANGED <<autoVision, SplitVars>>

\* process_image, lines 105-107: the "Processing image..." reply is awaited
\* before the try statement; then vision() runs up to its await.
process_image_processing_replied(r, ok, decodable) ==
    /\ run[r].pc = "pi_reply_processing"
    /\ IF ok
       THEN Set(r, CallVision(EndReply(run[r], TRUE), fs, decodable), fs)
       ELSE Set(r, Raise(EndReply(run[r], FALSE)), fs)
    /\ UNCHANGED <<autoVision, SplitVars>>

\* vision_command, lines 170-177 and 192-193.
vision_command(r, ev) ==
    /\ Fresh(r)
    /\ Dispatch(ev) = "vision_command"
    /\ IF HasPhoto(ev.reply_to)
       THEN Set(r, BeginReply(Entered(r, ev), "vc_reply_processing",
                              "Processing image...", << >>), fs)
       ELSE Set(r, BeginReply(Entered(r, ev), "last_reply",
                              "Reply to an image to describe it.", << >>), fs)
    /\ UNCHANGED <<autoVision, SplitVars>>

\* vision_command, lines 177-179: after the "Processing image..." reply the
\* try statement is entered and the download awaited.
vision_command_processing_replied(r, ok) ==
    /\ run[r].pc = "vc_reply_processing"
    /\ IF ok
       THEN Set(r, [EndReply(run[r], TRUE) EXCEPT !.pc = "vc_download",
                                                  !.downloads = @ + 1], fs)
       ELSE Set(r, Raise(EndReply(run[r], FALSE)), fs)
    /\ UNCHANGED <<autoVision, SplitVars>>

\* vision_command, lines 179-180: the download, inside the try, returns a
\* freshly named path, returns None or raises; then vision() runs up to its
\* await.
vision_command_downloaded(r, outcome, decodable) ==
    /\ run[r].pc = "vc_download"
    /\ CASE outcome = "raise" ->
              Set(r, ExceptClause([run[r] EXCEPT !.failure = "download"],
                                  "Exception"), fs)
         [] outcome = "none" ->
              Set(r, CallVision([run[r] EXCEPT !.file_path = NoneValue],
                                fs, decodable), fs)
         [] outcome = "path" ->
              LET path == download_path(run[r].handler, r)
                  files == [fs EXCEPT ![path] = r]
              IN  Set(r, CallVision([run[r] EXCEPT !.file_path = path],
                                    files, decodable), files)
    /\ UNCHANGED <<autoVision, SplitVars>>

\* A worker thread of the executor takes a queued closure (line 72): one
\* of the pool's max_workers threads is free.
worker_start(r) ==
    /\ run[r].task = "queued"
    /\ Cardinality({q \in DOMAIN run : run[q].task = "running"}) < max_workers
    /\ Set(r, [run[r] EXCEPT !.task = "running", !.thread = PoolThread], fs)
    /\ UNCHANGED <<autoVision, SplitVars>>

\* The closure ends on its worker (lines 74-79): the model's answer, or an
\* exception of the model call.
worker_finish(r, answer, ok) ==
    /\ run[r].task = "running"
    /\ IF ok
       THEN Set(r, [run[r] EXCEPT !.task = "returned", !.result = answer], fs)
       ELSE /\ answer = << >>
            /\ Set(r, [run[r] EXCEPT !.task = "raised"], fs)
    /\ UNCHANGED <<autoVision, SplitVars>>

\* The file removed as soon as vision() has returned, before the replies.
vision_returned_removes_first(r) ==
    /\ run[r].pc = "infer"
    /\ run[r].task \in {"returned", "raised"}
    /\ IF run[r].task = "raised"
       THEN Set(r, ExceptClause([run[r] EXCEPT !.failure = "inference"],
                                "Exception"), fs)
       ELSE LET files == [fs EXCEPT ![run[r].file_path] = Absent]
                st == SendChunks([run[r] EXCEPT !.removed = @ + 1], files,
                                 split_message(run[r].result, DefaultMaxLength))
            IN  Set(r, st.rec, st.files)
    /\ UNCHANGED <<autoVision, SplitVars>>

\* The handler resumes from await vision(...) (lines 82-86, 107-109): the
\* exception is re-raised into the except clauses, or the chunks are sent.
vision_returned(r) ==
    /\ run[r].pc = "infer"
    /\ run[r].task \in {"returned", "raised"}
    /\ IF run[r].task = "raised"
       THEN Set(r, ExceptClause([run[r] EXCEPT !.failure = "inference"],
                                "Exception"), fs)
       ELSE LET st == SendChunks(run[r], fs,
                                 split_message(run[r].result, DefaultMaxLength))
            IN  Set(r, st.rec, st.files)
    /\ UNCHANGED <<autoVision, SplitVars>>

\* Lines 108-109: one chunk's reply completes; the loop goes on, ends, or
\* the reply's exception enters except Exception.
chunk_replied(r, ok) ==
    /\ run[r].pc = "reply_chunk"
    /\ IF ok
       THEN LET st == SendChunks(EndReply(run[r], TRUE), fs, run[r].pending)
            IN  Set(r, st.rec, st.files)
       ELSE Set(r, ExceptClause(EndReply(run[r], FALSE), "Exception"), fs)
    /\ UNCHANGED <<autoVision, SplitVars>>

\* Lines 110-118: the error reply completes or raises; finally runs either
\* way.
error_replied(r, ok) ==
    /\ run[r].pc = "reply_error"
    /\ LET st == FinallyBlock(EndReply(run[r], ok), fs, ~ok)
       IN  Set(r, st.rec, st.files)
    /\ UNCHANGED <<autoVision, SplitVars>>

\* len(message.command) > 1 and message.command[1].lower() in ["on", "off"]
\* (line 142); Python's index 1 is the second element.
Recognised(command) ==
    /\ Len(command) > 1
    /\ Lower(command[2]) \in {on, off}

\* The value of autoVision after lines 142-154.
Toggled(flag, command) ==
    IF Recognised(command) THEN Lower(command[2]) = on ELSE flag

\* autovision_command, lines 137-154: up to the await of its reply.  Line
\* 140 reads message.from_user.id, which raises AttributeError for a message
\* without a sender, before the switch is touched.
autovision_command(r, ev) ==
    /\ Fresh(r)
    /\ Dispatch(ev) = "autovision_command"
    /\ IF ~ev.from_user
       THEN /\ autoVision' = autoVision
            /\ Set(r, Raise(Entered(r, ev)), fs)
       ELSE /\ autoVision' = Toggled(autoVision, ev.command)
            /\ Set(r, BeginReply(Entered(r, ev), "last_reply",
                                 IF ~Recognised(ev.command)
                                 THEN "Usage: /autovision [on/off]"
                                 ELSE IF Lower(ev.command[2]) = on
                                 THEN "Autovision enabled for this chat."
                                 ELSE "Autovision disabled for this chat.",
                                 << >>), fs)
    /\ UNCHANGED SplitVars

\* start_command that also writes the switch it shows.
start_command_resets(r, ev) ==
    /\ Fresh(r)
    /\ Dispatch(ev) = "start_command"
    /\ IF ~ev.from_user
       THEN /\ autoVision' = autoVision
            /\ Set(r, Raise(Entered(r, ev)), fs)
       ELSE /\ autoVision' = FALSE
            /\ Set(r, BeginReply(Entered(r, ev), "last_reply",
                                 IF autoVision THEN "AutoVision mode: enabled"
                                 ELSE "AutoVision mode: disabled", << >>), fs)
    /\ UNCHANGED SplitVars

\* start_command, lines 122-134: the welcome text shows the switch.  Line
\* 124 reads message.from_user.mention, which raises AttributeError for a
\* message without a sender.
start_command(r, ev) ==
    /\ Fresh(r)
    /\ Dispatch(ev) = "start_command"
    /\ IF ~ev.from_user
       THEN Set(r, Raise(Entered(r, ev)), fs)
       ELSE Set(r, BeginReply(Entered(r, ev), "last_reply",
                              IF autoVision THEN "AutoVision mode: enabled"
                              ELSE "AutoVision mode: disabled", << >>), fs)
    /\ UNCHANGED <<autoVision, SplitVars>>

\* ping_command, lines 157-160.
ping_command(r, ev) ==
    /\ Fresh(r)
    /\ Dispatch(ev) = "ping_command"
    /\ Set(r, BeginReply(Entered(r, ev), "pg_reply",
                         "Calculating latency...", << >>), fs)
    /\ UNCHANGED <<autoVision, SplitVars>>

\* ping_command, lines 160-167: the reply is edited to show the latency.
ping_replied(r, ok) ==
    /\ run[r].pc = "pg_reply"
    /\ IF ok
       THEN Set(r, BeginReply(EndReply(run[r], TRUE), "last_reply",
                              "**Latency:**", << >>), fs)
       ELSE Set(r, Raise(EndReply(run[r], FALSE)), fs)
    /\ UNCHANGED <<autoVision, SplitVars>>

\* The last awaited call of a handler outside any try completes (lines 102,
\* 125, 145, 150, 154, 167, 173, 193): the handler returns, or the call's
\* exception leaves it.
last_reply_done(r, ok) ==
    /\ run[r].pc = "last_reply"
    /\ IF ok
       THEN Set(r, Return(EndReply(run[r], TRUE)), fs)
       ELSE Set(r, Raise(EndReply(run[r], FALSE)), fs)
    /\ UNCHANGED <<autoVision, SplitVars>>

\* split_message(text, max_length) called on its own.
NoCall == [text |-> << >>, max_length |-> 1, returned |-> FALSE,
           chunks |-> << >>]

Alphabet == {"a", "b"}
Texts == UNION {[1..n -> Alphabet] : n \in 0..MaxLen}

split_message_call ==
    /\ ~call.returned
    /\ call' = [call EXCEPT !.returned = TRUE,
                            !.chunks = split_message(call.text,
                                                     call.max_length)]
    /\ UNCHANGED Pipeline

\* The event loop resumes the handler of r at the await it is suspended at.
Resume(r) ==
    \/ \E o \in {"path", "none", "raise"} : process_image_downloaded(r, o)
    \/ \E ok \in BOOLEAN, d \in BOOLEAN :
          process_image_processing_replied(r, ok, d)
    \/ \E ok \in BOOLEAN : vision_command_processing_replied(r, ok)
    \/ \E o \in {"path", "none", "raise"}, d \in BOOLEAN :
          vision_command_downloaded(r, o, d)
    \/ vision_returned(r)
    \/ \E ok \in BOOLEAN : chunk_replied(r, ok)
    \/ \E ok \in BOOLEAN : error_replied(r, ok)
    \/ \E ok \in BOOLEAN : ping_replied(r, ok)
    \/ \E ok \in BOOLEAN : last_reply_done(r, ok)

\* ------------------------------------------------------- specification
Init ==
    /\ autoVision = FALSE
    /\ fs = [p \in Paths |-> Absent]
    /\ run = [r \in Runs |-> IdleRun]
    /\ call = NoCall

\* The steps of the handlers in flight and of the worker pool.
Step ==
    \/ \E r \in Runs, o \in {"path", "none", "raise"} :
          process_image_downloaded(r, o)
    \/ \E r \in Runs, ok \in BOOLEAN, d \in BOOLEAN :
          process_image_processing_replied(r, ok, d)
    \/ \E r \in Runs, ok \in BOOLEAN : vision_command_processing_replied(r, ok)
    \/ \E r \in Runs, o \in {"path", "none", "raise"}, d \in BOOLEAN :
          vision_command_downloaded(r, o, d)
    \/ \E r \in Runs : worker_start(r)
    \/ \E r \in Runs, a \in Answers, ok \in BOOLEAN : worker_finish(r, a, ok)
    \/ \E r \in Runs : vision_returned(r)
    \/ \E r \in Runs, ok \in BOOLEAN : chunk_replied(r, ok)
    \/ \E r \in Runs, ok \in BOOLEAN : error_replied(r, ok)
    \/ \E r \in Runs, ok \in BOOLEAN : ping_replied(r, ok)
    \/ \E r \in Runs, ok \in BOOLEAN : last_reply_done(r, ok)

\* An inbound event is dispatched and its handler runs to its first await.
Receive(r, ev) ==
    \/ process_image(r, ev)
    \/ vision_command(r, ev)
    \/ autovision_command(r, ev)
    \/ start_command(r, ev)
    \/ ping_command(r, ev)

Next ==
    \/ \E r \in Runs, ev \in Events : Receive(r, ev)
    \/ Step

Spec == Init /\ [][Next]_vars

\* Automatic mode: the bot after /autovision on has been handled (line 144)
\* and its handler has ended, receiving photos and /vision replies to photos.
PhotoEvents ==
    [photo : {TRUE}, command : {<< >>}, reply_to : {"none"},
     from_user : {TRUE}]
      \cup [photo : {FALSE}, command : {<<"vision">>}, reply_to : {"photo"},
            from_user : {TRUE}]

InitAuto ==
    /\ autoVision = TRUE
    /\ fs = [p \in Paths |-> Absent]
    /\ run = [r \in Runs |-> IdleRun]
    /\ call = NoCall

StepAuto ==
    \/ \E r \in Runs, o \in {"path", "none", "raise"} :
          process_image_downloaded(r, o)
    \/ \E r \in Runs, ok \in BOOLEAN, d \in BOOLEAN :
          process_image_processing_replied(r, ok, d)
    \/ \E r \in Runs, ok \in BOOLEAN : vision_command_processing_replied(r, ok)
    \/ \E r \in Runs, o \in {"path", "none", "raise"}, d \in BOOLEAN :
          vision_command_downloaded(r, o, d)
    \/ \E r \in Runs : worker_start(r)
    \/ \E r \in Runs, a \in Answers, ok \in BOOLEAN : worker_finish(r, a, ok)
    \/ \E r \in Runs : vision_returned(r)
    \/ \E r \in Runs, ok \in BOOLEAN : chunk_replied(r, ok)
    \/ \E r \in Runs, ok \in BOOLEAN : error_replied(r, ok)
    \/ \E r \in Runs, ok \in BOOLEAN : last_reply_done(r, ok)

NextAuto ==
    \/ \E r \in Runs, ev \in PhotoEvents : process_image(r, ev)
    \/ \E r \in Runs, ev \in PhotoEvents : vision_command(r, ev)
    \/ StepAuto

SpecAuto == InitAuto /\ [][NextAuto]_vars

\* split_message on every text up to MaxLen and every max_length up to MaxM.
InitSplit ==
    /\ autoVision = FALSE
    /\ fs = [p \in Paths |-> Absent]
    /\ run = [r \in Runs |-> IdleRun]
    /\ call \in [text : Texts, max_length : 1..MaxM, returned : {FALSE},
                 chunks : {<< >>}]

NextSplit == split_message_call

SpecSplit == InitSplit /\ [][NextSplit]_vars

\* Long descriptions: the model's answer fills one message exactly, or
\* takes three messages (9000 characters).
Filled(n) == [i \in 1..n |-> "a"]

LongAnswers ==
    {Filled(DefaultMaxLength), Filled(2 * DefaultMaxLength + 808)}

\* The bot from its start, with long descriptions: /autovision on, photos
\* and /vision replies to photos arrive; downloads return a file, while the
\* model call and the replies may still fail.
LongEvents ==
    PhotoEvents
      \cup [photo : {FALSE}, command : {<<"autovision", on>>},
            reply_to : {"none"}, from_user : {TRUE}]

StepLong ==
    \/ \E r \in Runs : process_image_downloaded(r, "path")
    \/ \E r \in Runs, ok \in BOOLEAN :
          process_image_processing_replied(r, ok, TRUE)
    \/ \E r \in Runs, ok \in BOOLEAN : vision_command_processing_replied(r, ok)
    \/ \E r \in Runs : vision_command_downloaded(r, "path", TRUE)
    \/ \E r \in Runs : worker_start(r)
    \/ \E r \in Runs, a \in LongAnswers : worker_finish(r, a, TRUE)
    \/ \E r \in Runs : worker_finish(r, << >>, FALSE)
    \/ \E r \in Runs : vision_returned(r)
    \/ \E r \in Runs, ok \in BOOLEAN : chunk_replied(r, ok)
    \/ \E r \in Runs, ok \in BOOLEAN : error_replied(r, ok)
    \/ \E r \in Runs, ok \in BOOLEAN : last_reply_done(r, ok)

NextLong ==
    \/ \E r \in Runs, ev \in LongEvents : process_image(r, ev)
    \/ \E r \in Runs, ev \in LongEvents : vision_command(r, ev)
    \/ \E r \in Runs, ev \in LongEvents : autovision_command(r, ev)
    \/ StepLong

SpecLong == Init /\ [][NextLong]_vars

\* Load: /vision replies to photos arrive from the start of the bot, one
\* more than the dispatcher has handler workers; their downloads and
\* replies succeed, and the model call returns a description or raises.
PoolRuns == 1..(workers + 1)

PoolPaths == {FixedPath} \cup {GeneratedPath(r) : r \in PoolRuns}

VisionReply ==
    [photo |-> FALSE, command |-> <<"vision">>, reply_to |-> "photo",
     from_user |-> TRUE]

InitPool ==
    /\ autoVision = FALSE
    /\ fs = [p \in PoolPaths |-> Absent]
    /\ run = [r \in PoolRuns |-> IdleRun]
    /\ call = NoCall

StepPool ==
    \/ \E r \in PoolRuns : vision_command_processing_replied(r, TRUE)
    \/ \E r \in PoolRuns : vision_command_downloaded(r, "path", TRUE)
    \/ \E r \in PoolRuns : worker_start(r)
    \/ \E r \in PoolRuns : worker_finish(r, <<"a">>, TRUE)
    \/ \E r \in PoolRuns : worker_finish(r, << >>, FALSE)
    \/ \E r \in PoolRuns : vision_returned(r)
    \/ \E r \in PoolRuns : chunk_replied(r, TRUE)
    \/ \E r \in PoolRuns : error_replied(r, TRUE)

NextPool ==
    \/ \E r \in PoolRuns : vision_command(r, VisionReply)
    \/ StepPool

SpecPool == InitPool /\ [][NextPool]_vars

\* The switch and the photo handler: the bot at a moment with no handler in
\* flight, the switch on or off; photos and /autovision on, /autovision off
\* arrive.
SwitchEvents ==
    [photo : {TRUE}, command : {<< >>}, reply_to : {"none"},
     from_user : {TRUE}]
      \cup [photo : {FALSE}, command : {<<"autovision", on>>,
                                         <<"autovision", off>>},
            reply_to : {"none"}, from_user : BOOLEAN]

InitSwitch ==
    /\ autoVision \in BOOLEAN
    /\ fs = [p \in Paths |-> Absent]
    /\ run = [r \in Runs |-> IdleRun]
    /\ call = NoCall

StepSwitch ==
    \/ \E r \in Runs, o \in {"path", "none", "raise"} :
          process_image_downloaded(r, o)
    \/ \E r \in Runs, ok \in BOOLEAN, d \in BOOLEAN :
          process_image_processing_replied(r, ok, d)
    \/ \E r \in Runs : worker_start(r)
    \/ \E r \in Runs, a \in Answers, ok \in BOOLEAN : worker_finish(r, a, ok)
    \/ \E r \in Runs : vision_returned(r)
    \/ \E r \in Runs, ok \in BOOLEAN : chunk_replied(r, ok)
    \/ \E r \in Runs, ok \in BOOLEAN : error_replied(r, ok)
    \/ \E r \in Runs, ok \in BOOLEAN : last_reply_done(r, ok)

NextSwitch ==
    \/ \E r \in Runs, ev \in SwitchEvents : process_image(r, ev)
    \/ \E r \in Runs, ev \in SwitchEvents : autovision_command(r, ev)
    \/ StepSwitch

SpecSwitch == InitSwitch /\ [][NextSwitch]_vars

\* ================================================================ claims
InFlight(r) == run[r].pc \notin {"idle", "done"}

\* The handler of record r ends in this step.
Ends(r) == run[r].pc # "done" /\ run'[r].pc = "done"

\* Every reply the handler of r issued was delivered.
Delivered(r) ==
    \A i \in DOMAIN run[r].replies : run[r].replies[i].status = "sent"

ErrorKinds == {"Error: ", "An unexpected error occurred: "}

ErrorReplies(r) ==
    {i \in DOMAIN run[r].replies : run[r].replies[i].kind \in ErrorKinds}

\* C1: when a handler whose download produced a local file ends, that file
\* is no longer on disk, whichever step after the download failed.
C1_FileGoneAtEnd ==
    [][\A r \in Runs :
          (Ends(r) /\ run'[r].file_path \in Paths)
             => ~exists(fs', run'[r].file_path)]_vars

\* C2: two handlers in flight at the same time never hold the same local
\* file path.
C2_OwnFilePerRun ==
    \A r1, r2 \in Runs :
       (r1 # r2 /\ InFlight(r1) /\ InFlight(r2)
          /\ run[r1].file_path \in Paths /\ run[r2].file_path \in Paths)
          => run[r1].file_path # run[r2].file_path

\* C3: a handler in which the download, the opening or the inference raised
\* ends without an exception leaving it and with exactly one error reply
\* (here even when every reply it issued was delivered).
C3_FailureCaught ==
    \A r \in Runs :
       (run[r].pc = "done" /\ run[r].failure # "none" /\ Delivered(r))
          => /\ ~run[r].raised
             /\ Cardinality(ErrorReplies(r)) = 1

\* C4: a handler whose download returned no path ends, without raising,
\* having sent the download-failure reply, opened no image, started no
\* inference and removed no file (here even when every reply it issued was
\* delivered).
C4_EmptyDownload ==
    \A r \in Runs :
       (run[r].pc = "done" /\ run[r].file_path = NoneValue /\ Delivered(r))
          => /\ \E i \in DOMAIN run[r].replies :
                   run[r].replies[i].kind = "Failed to download the image."
             /\ run[r].opens = 0
             /\ run[r].task = "none"
             /\ run[r].removed = 0
             /\ ~run[r].raised

\* The command of an event is /vision.
IsVisionCommand(ev) == Len(ev.command) > 0 /\ ev.command[1] = "vision"

\* C5 as stated: a download is attempted if and only if the flag is true
\* and the event carries a photo, or a /vision command targets a message
\* with a photo, directly (its own photo) or via reply-to.
C5_StartsAsStated ==
    \A r \in Runs :
       run[r].pc = "done"
          => (run[r].downloads > 0
                <=> \/ run[r].gate /\ run[r].ev.photo
                    \/ /\ IsVisionCommand(run[r].ev)
                       /\ run[r].ev.photo \/ run[r].ev.reply_to = "photo")

\* C5, amended: a download is attempted if and only if (a) the event
\* carries a photo and the flag is true when it is handled, or (b) a /vision
\* command without a photo of its own replies to a photo and its
\* "Processing image..." reply was delivered; (b) does not read the flag.
C5_RunStarts ==
    \A r \in Runs :
       run[r].downloads > 0
          <=> \/ run[r].ev.photo /\ run[r].gate
              \/ /\ ~run[r].ev.photo
                 /\ IsVisionCommand(run[r].ev)
                 /\ run[r].ev.reply_to = "photo"
                 /\ Len(run[r].replies) > 0
                 /\ run[r].replies[1].status = "sent"

\* A /vision reply to a photo downloads while the flag is false.
C5_Witness ==
    \E r \in Runs :
       /\ run[r].handler = "vision_command"
       /\ run[r].downloads = 1
       /\ ~run[r].gate
       /\ ~autoVision

\* C6: a photo event handled while the flag is false ends process_image at
\* once: no download, no reply, no file created or deleted, flag unchanged.
C6_GateClosedNoEffect ==
    [][\A r \in Runs :
          (run[r].pc = "idle" /\ run'[r].handler = "process_image"
             /\ ~autoVision)
             => /\ run'[r].pc = "done"
                /\ run'[r].downloads = 0
                /\ run'[r].replies = << >>
                /\ run'[r].removed = 0
                /\ run'[r].file_path = Unbound
                /\ ~run'[r].raised
                /\ fs' = fs
                /\ autoVision' = autoVision]_vars

C6_Witness ==
    \E r \in Runs :
       /\ run[r].handler = "process_image"
       /\ ~run[r].gate
       /\ run[r].pc = "done"
       /\ ~autoVision

\* The first argument of a command ("" when it is missing).
Argument(command) == IF Len(command) > 1 THEN command[2] ELSE << >>

\* The letters of arg are those of word in either case.
Spells(arg, word) ==
    /\ Len(arg) = Len(word)
    /\ \A i \in DOMAIN arg :
          \/ arg[i] = word[i]
          \/ <<arg[i], word[i]>> \in {<<"O", "o">>, <<"N", "n">>, <<"F", "f">>}

UsageOnly(rec) ==
    /\ Len(rec.replies) = 1
    /\ rec.replies[1].kind = "Usage: /autovision [on/off]"

\* The step in which record r starts to run handler h.
Enters(r, h) == run[r].pc = "idle" /\ run'[r].handler = h

\* C7: /autovision sets the flag when its first argument is "on" and clears
\* it when it is "off" (compared as the code compares, without regard to
\* letter case); for any other first argument, or none, the flag is
\* unchanged and the usage reply is the one reply the handler issues, up to
\* its end.
C7_Toggle ==
    /\ [][\A r \in Runs :
             Enters(r, "autovision_command")
                => LET arg == Argument(run'[r].ev.command)
                   IN  /\ Spells(arg, on) => autoVision' = TRUE
                       /\ Spells(arg, off) => autoVision' = FALSE
                       /\ ~Spells(arg, on) /\ ~Spells(arg, off)
                             => /\ autoVision' = autoVision
                                /\ UsageOnly(run'[r])]_vars
    /\ [][\A r \in Runs :
             (run[r].handler = "autovision_command" /\ UsageOnly(run[r]))
                => UsageOnly(run'[r])]_vars

\* C8: the flag is false at process start and changes only in the step of
\* autovision_command; no other handler and no step of a run in flight
\* changes it.
C8_OnlyAutovisionWrites ==
    /\ autoVision = FALSE
    /\ [][autoVision' # autoVision
             => \E r \in Runs : Enters(r, "autovision_command")]_vars

\* The flag was set and a photo run went through its steps with it set.
C8_Witness ==
    /\ autoVision
    /\ \E r \in Runs :
          /\ run[r].handler = "process_image"
          /\ run[r].pc = "done"
          /\ run[r].removed = 1

\* C9: /vision that is no reply, or replies to a message without a photo,
\* issues the one usage reply and nothing else: no download, no image
\* opened, no inference, no file removed.
C9_VisionUsage ==
    \A r \in Runs :
       (run[r].handler = "vision_command" /\ run[r].ev.reply_to # "photo")
          => /\ Len(run[r].replies) = 1
             /\ run[r].replies[1].kind = "Reply to an image to describe it."
             /\ run[r].downloads = 0
             /\ run[r].opens = 0
             /\ run[r].task = "none"
             /\ run[r].removed = 0
             /\ run[r].file_path = Unbound

C9_Witness ==
    \E r \in Runs :
       /\ run[r].handler = "vision_command"
       /\ run[r].ev.reply_to = "text"
       /\ run[r].pc = "done"
       /\ ~run[r].raised

RECURSIVE Concat(_)
Concat(ss) == IF ss = << >> THEN << >> ELSE Head(ss) \o Concat(Tail(ss))

\* C10: split_message(text, M) returns ceil(L / M) chunks, none empty, none
\* longer than M, all but the last of length M, whose concatenation is text.
C10_SplitMessage ==
    call.returned
       => LET L == Len(call.text)
              M == call.max_length
              cs == call.chunks
          IN  /\ Len(cs) = (L + M - 1) \div M
              /\ \A i \in DOMAIN cs :
                    /\ Len(cs[i]) >= 1
                    /\ Len(cs[i]) <= M
                    /\ i < Len(cs) => Len(cs[i]) = M
              /\ Concat(cs) = call.text

\* A text of five characters cut into 2 + 2 + 1.
C10_Witness ==
    /\ call.returned
    /\ Len(call.text) = 5
    /\ call.max_length = 2
    /\ Len(call.chunks) = 3
    /\ Len(call.chunks[3]) = 1

\* The number of messages a text of length L takes.
Messages(L) == (L + DefaultMaxLength - 1) \div DefaultMaxLength

\* The handler of r ended after its model call returned and every reply it
\* issued was delivered.
Succeeded(r) ==
    /\ run[r].pc = "done"
    /\ run[r].task = "returned"
    /\ Delivered(r)

\* C11 as stated: a run whose inference succeeds with a result of length L
\* sends exactly ceil(L / 4096) reply messages in total.
C11_RepliesAsStated ==
    \A r \in Runs :
       Succeeded(r) => Len(run[r].replies) = Messages(Len(run[r].result))

\* C11, amended: a run whose inference succeeds with a result of length L
\* and whose reply sends all succeed issues 1 + ceil(L / 4096) replies in
\* total: "Processing image..." first, then the ceil(L / 4096) chunks of the
\* result, each of 4096 characters but the last, which holds the rest (4096,
\* 4096 and 808 when L = 9000).
C11_ResultReplies ==
    \A r \in Runs :
       Succeeded(r)
          => LET L == Len(run[r].result)
                 n == Messages(L)
                 sent == run[r].replies
             IN  /\ Len(sent) = 1 + n
                 /\ sent[1].kind = "Processing image..."
                 /\ \A k \in 1..n :
                       /\ sent[k + 1].kind = "chunk"
                       /\ Len(sent[k + 1].body) =
                             IF k < n THEN DefaultMaxLength
                             ELSE L - (n - 1) * DefaultMaxLength
                 /\ L = 9000
                       => [k \in 1..3 |-> Len(sent[k + 1].body)]
                             = <<4096, 4096, 808>>

\* A run delivered a description of 9000 characters in three messages.
C11_Witness ==
    \E r \in Runs :
       /\ Succeeded(r)
       /\ Len(run[r].result) = 9000
       /\ Len(run[r].replies) = 4
       /\ Len(run[r].replies[4].body) = 808

IsChunk(m) == m.kind = "chunk"

\* The bodies of the result messages a handler issued, in the order of issue.
ChunksIssued(rec) ==
    LET sel == SelectSeq(rec.replies, IsChunk)
    IN  [i \in DOMAIN sel |-> sel[i].body]

\* C12: in every run, result chunks are issued only after the model call
\* returned; they are the chunks of split_message(result) in its order (with
\* the chunks still to send, exactly that list); and a reply is issued only
\* when every earlier reply of the run has completed, a chunk after a chunk
\* only when that one was sent.
C12_ChunksInOrder ==
    \A r \in Runs :
       LET issued == ChunksIssued(run[r])
           all == split_message(run[r].result, DefaultMaxLength)
           sent == run[r].replies
       IN  /\ issued # << >> => run[r].task = "returned"
           /\ Len(issued) <= Len(all)
           /\ issued = SubSeq(all, 1, Len(issued))
           /\ run[r].pc = "reply_chunk" => issued \o run[r].pending = all
           /\ \A i \in DOMAIN sent :
                 i < Len(sent)
                    => /\ sent[i].status # "pending"
                       /\ (IsChunk(sent[i]) /\ IsChunk(sent[i + 1]))
                             => sent[i].status = "sent"

\* Two runs are inside their loops at once: one awaits its third chunk, the
\* other its first.
C12_Witness ==
    \E r1, r2 \in Runs :
       /\ run[r1].pc = "reply_chunk"
       /\ Len(ChunksIssued(run[r1])) = 3
       /\ run[r2].pc = "reply_chunk"
       /\ Len(ChunksIssued(run[r2])) = 1
       /\ run[r2].pending # << >>

\* C13: whenever a closure's model calls (encode_image, answer_question) are
\* running, a worker of the pool runs them, not the event-loop thread; and
\* the step that starts them is no step of the handler, which stays
\* suspended at its await.
C13_ModelCallsOffLoop ==
    /\ \A r \in Runs :
          run[r].task = "running"
             => /\ run[r].thread = PoolThread
                /\ run[r].thread # LoopThread
                /\ run[r].pc = "infer"
    /\ [][\A r \in Runs :
             (run[r].task # "running" /\ run'[r].task = "running")
                => /\ run[r].task = "queued"
                   /\ run'[r].pc = run[r].pc
                   /\ run'[r].replies = run[r].replies]_vars

\* A model call runs on a worker while the event loop has handled another
\* event, whose handler awaits its reply.
C13_Witness ==
    \E r, q \in Runs :
       /\ run[r].task = "running"
       /\ run[r].thread = PoolThread
       /\ run[q].handler = "ping_command"
       /\ run[q].pc = "last_reply"

\* The closure of r is queued for a worker or running on one.
Inferring(r) == run[r].task \in {"queued", "running"}

\* C14: while pipeline runs wait for their inference result (their closures
\* running on workers or queued for one), here with every handler in flight
\* doing so, the event loop can handle any other inbound event up to its
\* handler's first await: as long as the events of the behaviour are not
\* used up, the handler of each kind of event can start, and none waits for
\* an inference in flight to finish.
C14_LoopResponsive ==
    (/\ HandlersInFlight # {}
     /\ \A r \in HandlersInFlight : Inferring(r)
     /\ \E q \in DOMAIN run : run[q].pc = "idle")
       => \A ev \in Events : \E q \in DOMAIN run : ENABLED Receive(q, ev)

\* The replies by which a handler reports a failure to the chat.
FailureReplies(r) ==
    {i \in DOMAIN run[r].replies :
        run[r].replies[i].kind
           \in ErrorKinds \cup {"Failed to download the image."}}

\* C15: a run attempts the download at most once and calls vision(), which
\* submits the one inference task, at most once; and a run whose download or
\* inference raised ends having reported the failure (here even when every
\* reply it issued was delivered).
C15_SingleAttempt ==
    \A r \in Runs :
       /\ run[r].downloads <= 1
       /\ run[r].opens <= 1
       /\ (run[r].pc = "done" /\ run[r].failure \in {"download", "inference"}
              /\ Delivered(r))
             => FailureReplies(r) # {}

\* A step of the run failed after its download wrote the file: opening the
\* image, the inference, or the send of a reply that is no error reply.
FailedAfterDownload(rec) ==
    /\ rec.file_path \in Paths
    /\ \/ rec.failure \in {"open", "inference"}
       \/ \E i \in DOMAIN rec.replies :
             /\ rec.replies[i].status = "failed"
             /\ rec.replies[i].kind \notin ErrorKinds

\* C17: when a run that failed after its download ends, it has issued
\* exactly one error reply ("Error: ..." or "An unexpected error
\* occurred: ...") and has gone through the cleanup: its file is not on
\* disk.
C17_OneErrorReply ==
    [][\A r \in Runs :
          (Ends(r) /\ FailedAfterDownload(run'[r]))
             => /\ Cardinality({i \in DOMAIN run'[r].replies :
                                  run'[r].replies[i].kind \in ErrorKinds}) = 1
                /\ ~exists(fs', run'[r].file_path)]_vars

\* C18: the content a run's Image.open read is the content that run's own
\* download wrote.
C18_OwnBytes ==
    \A r \in Runs : run[r].opened # Absent => run[r].opened = r

\* C16: in every run the stages come in the order download, open and
\* resize, inference, result replies, cleanup, each begun only when the one
\* before has completed: vision() is called only after the download
\* returned; the closure is submitted only after the image was opened; a
\* result is replied only after the model call returned; a file is removed
\* only in the step that ends the handler, when no reply of the run is
\* pending, and the handler does nothing after it.  A run that ends with its
\* result delivered has gone through every stage once and leaves no file.
C16_StagesInOrder ==
    /\ \A r \in Runs :
          /\ run[r].opens > 0
                => run[r].downloads = 1 /\ run[r].file_path # Unbound
          /\ run[r].task # "none"
                => run[r].opens = 1 /\ run[r].opened # Absent
          /\ ChunksIssued(run[r]) # << >> => run[r].task = "returned"
          /\ run[r].removed > 0 => run[r].pc = "done"
    /\ [][\A r \in Runs :
             /\ run'[r].removed # run[r].removed
                   => /\ Ends(r)
                      /\ run'[r].removed = 1
                      /\ \A i \in DOMAIN run'[r].replies :
                            run'[r].replies[i].status # "pending"
             /\ run[r].pc = "done" => run'[r] = run[r]
             /\ (Ends(r) /\ run'[r].task = "returned"
                    /\ \A i \in DOMAIN run'[r].replies :
                          run'[r].replies[i].status = "sent")
                   => /\ run'[r].downloads = 1
                      /\ run'[r].opens = 1
                      /\ ChunksIssued(run'[r])
                            = split_message(run'[r].result, DefaultMaxLength)
                      /\ ~exists(fs', run'[r].file_path)]_vars

\* A run went through all five stages: it delivered its result and removed
\* its file.
C16_Witness ==
    \E r \in Runs :
       /\ Succeeded(r)
       /\ ChunksIssued(run[r]) # << >>
       /\ run[r].removed = 1
       /\ ~exists(fs, run[r].file_path)

\* The handler of r is process_image.
IsPhotoRun(rec) == rec.handler = "process_image"

\* C19: process_image reads the switch once, in the step that handles the
\* photo: the run starts exactly when the switch is on at that step.  A photo
\* handled while it was off has ended at once and is never processed,
\* whatever the switch becomes.  A run that started goes on whatever the
\* switch becomes: while the switch is off its handler can still be resumed
\* and its model call can still finish, and it ends only by an exception, by
\* the download-failure reply, or through the try statement (image opened,
\* then the whole result or an error reply issued) and the cleanup.
C19_SwitchReadOnce ==
    /\ \A r \in Runs :
          /\ (IsPhotoRun(run[r]) /\ ~run[r].gate)
                => /\ run[r].pc = "done"
                   /\ run[r].downloads = 0
                   /\ run[r].opens = 0
                   /\ run[r].task = "none"
                   /\ run[r].replies = << >>
          /\ (IsPhotoRun(run[r]) /\ run[r].gate /\ ~autoVision)
                => /\ (InFlight(r) /\ ~Inferring(r)) => ENABLED Resume(r)
                   /\ run[r].task = "running"
                         => ENABLED worker_finish(r, <<"a">>, TRUE)
    /\ [][\A r \in Runs :
             /\ Enters(r, "process_image")
                   => /\ run'[r].gate = autoVision
                      /\ run'[r].downloads = 1 <=> autoVision
             /\ run[r].pc # "idle" => run'[r].gate = run[r].gate
             /\ (Ends(r) /\ IsPhotoRun(run'[r]) /\ run'[r].gate)
                   => \/ run'[r].raised
                      \/ run'[r].file_path = NoneValue
                      \/ /\ run'[r].opens = 1
                         /\ ~exists(fs', run'[r].file_path)
                         /\ \/ ErrorReplies(r) # {}
                            \/ /\ run'[r].task = "returned"
                               /\ ChunksIssued(run'[r])
                                     = split_message(run'[r].result,
                                                     DefaultMaxLength)]_vars

\* A run that started with the switch on is replying its result while the
\* switch is off: /autovision off was handled while the run was suspended.
C19_Witness ==
    /\ IsPhotoRun(run[1])
    /\ run[1].gate
    /\ run[1].pc = "reply_chunk"
    /\ ~autoVision
    /\ run[2].handler = "autovision_command"
    /\ run[2].pc = "done"

\* A pipeline run has started: its handler has begun the download.
Started(r) == run[r].downloads > 0

\* The handler of r reached the end of its cleanup step; process_image
\* returning at line 103, where the download gave no file and there is
\* nothing to clean up, counts as well.
CleanedUp(r) ==
    \/ run[r].cleanup
    \/ /\ run[r].handler = "process_image"
       /\ run[r].file_path = NoneValue
       /\ run[r].pc = "done"

\* C20: every started pipeline run ends at the end of its cleanup step: a
\* started run whose handler has ended has reached it (a handler that has
\* ended takes no further step, so a run that ended elsewhere never does).
C20_RunsEnd ==
    \A r \in Runs : (Started(r) /\ run[r].pc = "done") => CleanedUp(r)

====
